---- MODULE Spec2Model ----
(***************************************************************************)
(* The yahtzee session handler (package handler): the HTTP handlers        *)
(* Create, Get, HintsForGame, AddPlayer, Roll, Lock, Score and WS, run by  *)
(* concurrent request goroutines against a store with a per-session lock,  *)
(* and the websocket writer/reader goroutines fed by the event bus.        *)
(***************************************************************************)
EXTENDS Integers, Sequences, FiniteSets, TLC

(* ------------------------------------------------------------------ *)
(* Bounds of the model                                                  *)
(* ------------------------------------------------------------------ *)

\* number of requests the clients issue in one behaviour
MaxRequests == 2
\* number of outcomes of the random source a Roll may draw from
MaxDraws == 2

(* ------------------------------------------------------------------ *)
(* Program constants                                                    *)
(* ------------------------------------------------------------------ *)

\* g.Round >= 13: the game is over
LastRound == 13
\* g.RollCount >= 3: no more rolls
MaxRolls == 3
\* rand.Intn(6) + 1
Faces == 6
\* len(g.Dices) of a game made by yahtzee.NewGame
NumDices == 5

\* HTTP status codes written by the handlers
StatusOK == 200
StatusCreated == 201
StatusBadRequest == 400
StatusUnauthorized == 401
StatusNotFound == 404
StatusConflict == 409
StatusInternalServerError == 500
\* no status line: the handler panicked and net/http aborted the response after
\* running the deferred calls
StatusAborted == 0

(* ------------------------------------------------------------------ *)
(* The game (package yahtzee)                                           *)
(* ------------------------------------------------------------------ *)

\* yahtzee.Categories(): the fixed ordering of the 13 categories
Categories ==
    << "ones", "twos", "threes", "fours", "fives", "sixes",
       "three-of-a-kind", "four-of-a-kind", "full-house",
       "small-straight", "large-straight", "yahtzee", "chance" >>

CategorySet == { Categories[i] : i \in 1..Len(Categories) }

\* yahtzee.NewPlayer(user): a player with an empty score sheet.  The score
\* sheet is a map: a function whose domain is the set of used categories.
NewPlayer(user) == [User |-> user, ScoreSheet |-> <<>>]

\* yahtzee.NewGame(features...)
NewGame(ordered) ==
    [ Players       |-> <<>>,
      Dices         |-> [i \in 1..NumDices |-> [Value |-> 1, Locked |-> FALSE]],
      Round         |-> 0,
      CurrentPlayer |-> 0,
      RollCount     |-> 0,
      Ordered       |-> ordered,
      PostGameRuns  |-> 0 ]

\* g.HasFeature(yahtzee.Ordered)
HasOrdered(g) == g.Ordered

RECURSIVE SumSeq(_)
SumSeq(s) == IF Len(s) = 0 THEN 0 ELSE Head(s) + SumSeq(Tail(s))

DiceValues(g) == [i \in 1..Len(g.Dices) |-> g.Dices[i].Value]

CountOf(vals, v) == Cardinality({i \in 1..Len(vals) : vals[i] = v})

HasRun(vals, n) ==
    \E lo \in 1..(Faces - n + 1) :
        \A v \in lo..(lo + n - 1) : CountOf(vals, v) > 0

\* g.Scorer.ScoreActions[category](g): the scoring table of the game
Scorer(category, g) ==
    LET vals == DiceValues(g)
        upper(v) == v * CountOf(vals, v)
        kind(n) == IF \E v \in 1..Faces : CountOf(vals, v) >= n
                   THEN SumSeq(vals) ELSE 0
    IN CASE category = "ones"   -> upper(1)
         [] category = "twos"   -> upper(2)
         [] category = "threes" -> upper(3)
         [] category = "fours"  -> upper(4)
         [] category = "fives"  -> upper(5)
         [] category = "sixes"  -> upper(6)
         [] category = "three-of-a-kind" -> kind(3)
         [] category = "four-of-a-kind"  -> kind(4)
         [] category = "full-house" ->
                IF /\ \E v \in 1..Faces : CountOf(vals, v) = 3
                   /\ \E v \in 1..Faces : CountOf(vals, v) = 2
                THEN 25 ELSE 0
         [] category = "small-straight" -> IF HasRun(vals, 4) THEN 30 ELSE 0
         [] category = "large-straight" -> IF HasRun(vals, 5) THEN 40 ELSE 0
         [] category = "yahtzee" -> IF kind(5) > 0 THEN 50 ELSE 0
         [] category = "chance"  -> SumSeq(vals)

\* _, ok := g.Scorer.ScoreActions[category]
HasScorer(category) == category \in CategorySet

(* ------------------------------------------------------------------ *)
(* The transitions of the handlers, on the game they loaded             *)
(* ------------------------------------------------------------------ *)

\* Outcome of the part of a handler between Load and Save.
Accept(g) == [kind |-> "ok", status |-> StatusOK, msg |-> "", game |-> g]
Reject(g, status, msg) == [kind |-> "reject", status |-> status, msg |-> msg, game |-> g]
Fault(g) == [kind |-> "panic", status |-> StatusAborted, msg |-> "panic", game |-> g]

\* g.Players[g.CurrentPlayer] (Go indexes from 0)
CurrentPlayerOf(g) == g.Players[g.CurrentPlayer + 1]

\* for _, p := range g.Players { if p.User == user ...
IsPlayer(g, user) == \E i \in 1..Len(g.Players) : g.Players[i].User = user

\* AddPlayer without the loop over g.Players
JoinWithoutJoinedCheck(g, user) ==
    IF g.CurrentPlayer > 0 \/ g.Round > 0
    THEN Reject(g, StatusBadRequest, "game already started")
    ELSE Accept([g EXCEPT !.Players = Append(g.Players, NewPlayer(user))])

\* AddPlayer, between Load and Save
JoinTransition(g, user) ==
    IF g.CurrentPlayer > 0 \/ g.Round > 0
    THEN Reject(g, StatusBadRequest, "game already started")
    ELSE IF IsPlayer(g, user)
    THEN Reject(g, StatusConflict, "already joined")
    ELSE Accept([g EXCEPT !.Players = Append(g.Players, NewPlayer(user))])

\* the outcomes of the random source: one rand.Intn(6) per dice
DrawList ==
    << <<0, 0, 1, 2, 3>>, <<5, 5, 5, 5, 5>>, <<1, 2, 3, 4, 5>>,
       <<2, 2, 4, 4, 4>>, <<0, 1, 2, 3, 4>>, <<3, 0, 3, 0, 5>> >>

Draws == { DrawList[k] : k \in 1..(IF MaxDraws < Len(DrawList) THEN MaxDraws ELSE Len(DrawList)) }

\* d.Value = rand.Intn(6) + 1
RandValue(n) == n + 1

\* the loop of Roll without `if d.Locked { continue }`
RollAllDices(dices, rnd) ==
    [i \in 1..Len(dices) |-> [dices[i] EXCEPT !.Value = RandValue(rnd[i])]]

\* for _, d := range g.Dices { if d.Locked { continue }; d.Value = ... }
RollDices(dices, rnd) ==
    [i \in 1..Len(dices) |->
        IF dices[i].Locked THEN dices[i]
        ELSE [dices[i] EXCEPT !.Value = RandValue(rnd[i])]]

\* Roll without `if g.RollCount >= 3`
RollTransitionNoLimit(g, user, rnd) ==
    IF Len(g.Players) = 0
    THEN Reject(g, StatusBadRequest, "no players joined")
    ELSE IF g.CurrentPlayer >= Len(g.Players)
    THEN Fault(g)
    ELSE IF user # CurrentPlayerOf(g).User
    THEN Reject(g, StatusBadRequest, "another players turn")
    ELSE IF g.Round >= LastRound
    THEN Reject(g, StatusBadRequest, "game is over")
    ELSE Accept([g EXCEPT !.Dices = RollDices(g.Dices, rnd),
                          !.RollCount = g.RollCount + 1])

\* Roll, between Load and Save
RollTransition(g, user, rnd) ==
    IF Len(g.Players) = 0
    THEN Reject(g, StatusBadRequest, "no players joined")
    ELSE IF g.CurrentPlayer >= Len(g.Players)
    THEN Fault(g)
    ELSE IF user # CurrentPlayerOf(g).User
    THEN Reject(g, StatusBadRequest, "another players turn")
    ELSE IF g.Round >= LastRound
    THEN Reject(g, StatusBadRequest, "game is over")
    ELSE IF g.RollCount >= MaxRolls
    THEN Reject(g, StatusBadRequest, "no more rolls")
    ELSE Accept([g EXCEPT !.Dices = RollDices(g.Dices, rnd),
                          !.RollCount = g.RollCount + 1])

\* strconv.Atoi on the {dice} path variable
DigitStrings == <<"0", "1", "2", "3", "4", "5", "6", "7", "8", "9">>

Atoi(raw) ==
    IF \E d \in 1..Len(DigitStrings) : DigitStrings[d] = raw
    THEN [err |-> FALSE, n |-> (CHOOSE d \in 1..Len(DigitStrings) : DigitStrings[d] = raw) - 1]
    ELSE IF \E d \in 1..Len(DigitStrings) : "-" \o DigitStrings[d] = raw
    THEN [err |-> FALSE,
          n |-> 1 - (CHOOSE d \in 1..Len(DigitStrings) : "-" \o DigitStrings[d] = raw)]
    ELSE [err |-> TRUE, n |-> 0]

\* readDiceIndex(w, r, diceNum)
ReadDiceIndex(raw, diceNum) ==
    LET a == Atoi(raw)
    IN IF a.err \/ a.n < 0 \/ a.n > diceNum - 1
       THEN [ok |-> FALSE, index |-> a.n]
       ELSE [ok |-> TRUE, index |-> a.n]

\* g.Dices[diceIndex].Locked = true
LockDice(dices, index) == [dices EXCEPT ![index + 1].Locked = TRUE]

\* g.Dices[diceIndex].Locked = !g.Dices[diceIndex].Locked
ToggleDice(dices, index) ==
    [dices EXCEPT ![index + 1].Locked = ~dices[index + 1].Locked]

\* Lock, between Load and Save
LockTransition(g, user, raw) ==
    LET di == ReadDiceIndex(raw, Len(g.Dices))
    IN IF ~di.ok
       THEN Reject(g, StatusBadRequest, "invalid dice index")
       ELSE IF Len(g.Players) = 0
       THEN Reject(g, StatusBadRequest, "no players joined")
       ELSE IF g.CurrentPlayer >= Len(g.Players)
       THEN Fault(g)
       ELSE IF user # CurrentPlayerOf(g).User
       THEN Reject(g, StatusBadRequest, "another players turn")
       ELSE IF g.Round >= LastRound
       THEN Reject(g, StatusBadRequest, "game is over")
       ELSE IF g.RollCount = 0
       THEN Reject(g, StatusBadRequest, "roll first")
       ELSE IF g.RollCount >= MaxRolls
       THEN Reject(g, StatusBadRequest, "no more rolls")
       ELSE Accept([g EXCEPT !.Dices = ToggleDice(g.Dices, di.index)])

\* currentPlayer.ScoreSheet[category] = scorer(&g)
WriteScore(g, category) ==
    [g EXCEPT !.Players[g.CurrentPlayer + 1].ScoreSheet =
                  (category :> Scorer(category, g)) @@ @]

\* for _, d := range g.Dices { d.Locked = false }
UnlockDices(dices) == [i \in 1..Len(dices) |-> [dices[i] EXCEPT !.Locked = FALSE]]

\* g.CurrentPlayer = g.CurrentPlayer + 1, the modulo forgotten
NextPlayerNoWrap(g) == g.CurrentPlayer + 1

\* g.CurrentPlayer = (g.CurrentPlayer + 1) % len(g.Players)
NextPlayer(g) == (g.CurrentPlayer + 1) % Len(g.Players)

\* g.Round++ without `if g.CurrentPlayer == 0`
AdvanceRoundEveryTurn(g) ==
    [g EXCEPT !.RollCount = 0,
              !.CurrentPlayer = NextPlayer(g),
              !.Round = g.Round + 1]

\* g.RollCount = 0; advance the player; if g.CurrentPlayer == 0 { g.Round++ }
AdvanceTurn(g) ==
    LET next == NextPlayer(g)
    IN [g EXCEPT !.RollCount = 0,
                 !.CurrentPlayer = next,
                 !.Round = IF next = 0 THEN g.Round + 1 ELSE g.Round]

\* the post-game actions run without `if g.Round >= 13`
RunPostGameEveryTurn(g) ==
    [g EXCEPT !.PostGameRuns = g.PostGameRuns + 1]

\* if g.Round >= 13 { for _, action := range g.Scorer.PostGameActions ... }
RunPostGame(g) ==
    IF g.Round >= LastRound
    THEN [g EXCEPT !.PostGameRuns = g.PostGameRuns + 1]
    ELSE g

\* the preconditions of Score without the check of the ordered categories
ScoreChecksAnyOrder(g, user, category) ==
    IF Len(g.Players) = 0
    THEN "no players joined"
    ELSE IF g.CurrentPlayer >= Len(g.Players)
    THEN "panic"
    ELSE IF user # CurrentPlayerOf(g).User
    THEN "another players turn"
    ELSE IF g.Round >= LastRound
    THEN "game is over"
    ELSE IF g.RollCount = 0
    THEN "roll first"
    ELSE IF category \in DOMAIN CurrentPlayerOf(g).ScoreSheet
    THEN "category is already used"
    ELSE IF ~HasScorer(category)
    THEN "invalid category"
    ELSE ""

\* the preconditions of Score without `if g.RollCount == 0`
ScoreChecksNoRollFirst(g, user, category) ==
    IF Len(g.Players) = 0
    THEN "no players joined"
    ELSE IF g.CurrentPlayer >= Len(g.Players)
    THEN "panic"
    ELSE IF user # CurrentPlayerOf(g).User
    THEN "another players turn"
    ELSE IF g.Round >= LastRound
    THEN "game is over"
    ELSE IF category \in DOMAIN CurrentPlayerOf(g).ScoreSheet
    THEN "category is already used"
    ELSE IF HasOrdered(g) /\ Categories[g.Round + 1] # category
    THEN "invalid category"
    ELSE IF ~HasScorer(category)
    THEN "invalid category"
    ELSE ""

\* the preconditions of Score, in the order of the code
ScoreChecks(g, user, category) ==
    IF Len(g.Players) = 0
    THEN "no players joined"
    ELSE IF g.CurrentPlayer >= Len(g.Players)
    THEN "panic"
    ELSE IF user # CurrentPlayerOf(g).User
    THEN "another players turn"
    ELSE IF g.Round >= LastRound
    THEN "game is over"
    ELSE IF g.RollCount = 0
    THEN "roll first"
    ELSE IF category \in DOMAIN CurrentPlayerOf(g).ScoreSheet
    THEN "category is already used"
    ELSE IF HasOrdered(g) /\ Categories[g.Round + 1] # category
    THEN "invalid category"
    ELSE IF ~HasScorer(category)
    THEN "invalid category"
    ELSE ""

\* Score, between Load and Save; hookFault: a scorer or hook of the pluggable
\* scoring policy panics
ScoreTransition(g, user, category, hookFault) ==
    LET why == ScoreChecks(g, user, category)
    IN IF why = "panic" THEN Fault(g)
       ELSE IF why # "" THEN Reject(g, StatusBadRequest, why)
       ELSE IF hookFault THEN Fault(g)
       ELSE Accept(RunPostGame(AdvanceTurn(
                [WriteScore(g, category) EXCEPT !.Dices = UnlockDices(g.Dices)])))

\* hints(game)
Hints(g) ==
    [c \in CategorySet |->
        IF HasOrdered(g) /\ g.Round < Len(Categories) /\ Categories[g.Round + 1] # c
        THEN 0
        ELSE Scorer(c, g)]

(* ------------------------------------------------------------------ *)
(* Inputs of the requests                                               *)
(* ------------------------------------------------------------------ *)

\* the request goroutines
Procs == {1, 2}

\* the websocket connections
Conns == {1}

\* the ids generateID returns
GameIDs == {"g1"}
\* the ids the clients ask for: an id is the id of no session until a Create
\* has returned it
RequestIDs == GameIDs

\* BasicAuth users; NoUser: the request carries no BasicAuth
Users == {"alice", "bob"}
NoUser == ""

\* the {dice} path variables of the Lock requests
DiceInputs == {"0", "4", "5", "-1", "x"}

\* the bodies of the Score requests
CategoryInputs == {"ones", "chance", "bogus"}

\* the bodies of the Create requests: no body, ["ordered"], not JSON
CreateInputs == {"", "ordered", "{"}

NoArg == ""

VARIABLES
    store,      \* store.Store: the saved games, by id
    lock,       \* store.Store: the holders of each session lock
    pc,         \* where each request goroutine is in its handler
    req,        \* the request it serves
    local,      \* its variable g
    resp,       \* the response it wrote
    trace,      \* what the request has done so far: unlocker, Save and Emit calls
    nreq,       \* requests issued so far
    created,    \* per id, the number of Creates saved under it
    base,       \* per id, the game the session started from
    commits,    \* per id, the accepted mutations in the order of their Saves
    emitted,    \* per id, the events passed to Emit, in order
    conn,       \* per websocket connection: subscription, channel, goroutines
    delivered   \* per websocket connection, the events written to it

vars == << store, lock, pc, req, local, resp, trace, nreq, created, base, commits,
           emitted, conn, delivered >>

\* capacity of a subscriber's event channel
MaxBuffer == 2

(* ------------------------------------------------------------------ *)
(* Games the program reaches by playing whole rounds                    *)
(* ------------------------------------------------------------------ *)

RECURSIVE JoinAll(_, _)
JoinAll(g, users) ==
    IF Len(users) = 0 THEN g
    ELSE JoinAll(JoinTransition(g, Head(users)).game, Tail(users))

\* the current player rolls once (first outcome of the random source) and
\* scores the category
PlayTurn(g, category) ==
    LET user == CurrentPlayerOf(g).User
        rolled == RollTransition(g, user, DrawList[1]).game
    IN ScoreTransition(rolled, user, category, FALSE).game

RECURSIVE PlayTurns(_, _, _)
PlayTurns(g, category, n) ==
    IF n = 0 THEN g ELSE PlayTurns(PlayTurn(g, category), category, n - 1)

\* every player in turn scores the category of round `from`, then `from + 1`, ...
RECURSIVE PlayRounds(_, _, _)
PlayRounds(g, from, to) ==
    IF from > to THEN g
    ELSE PlayRounds(PlayTurns(g, Categories[from + 1], Len(g.Players)), from + 1, to)

\* a game of `users` in which rounds 0 .. rounds-1 were played
GameAfter(users, ordered, rounds) ==
    PlayRounds(JoinAll(NewGame(ordered), users), 0, rounds - 1)

\* the current player rolls n times (first outcome of the random source)
RECURSIVE RollTimes(_, _)
RollTimes(g, n) ==
    IF n = 0 THEN g
    ELSE RollTimes(RollTransition(g, CurrentPlayerOf(g).User, DrawList[1]).game, n - 1)

\* the stores a behaviour starts from: the empty store of a new server, and
\* sessions at several points of a game
InitGames ==
    { NewGame(FALSE),
      GameAfter(<<"alice", "bob">>, FALSE, 0),
      RollTimes(GameAfter(<<"alice", "bob">>, FALSE, 0), 1),
      LockTransition(RollTimes(GameAfter(<<"alice", "bob">>, FALSE, 0), 1),
                     "alice", "0").game,
      RollTimes(PlayTurn(GameAfter(<<"alice", "bob">>, FALSE, 0), "chance"),
                MaxRolls),
      GameAfter(<<"alice">>, FALSE, LastRound - 1),
      GameAfter(<<"alice">>, FALSE, LastRound) }

InitStores == { <<>> } \cup { ("g1" :> g) : g \in InitGames }

\* sessions with the ordered-categories feature: at the first roll of round 0,
\* at the first roll of the last round, after the last round; and a session
\* without the feature in which alice has used a category
OrderedGames ==
    { RollTimes(GameAfter(<<"alice", "bob">>, TRUE, 0), 1),
      RollTimes(GameAfter(<<"alice">>, TRUE, LastRound - 1), 1),
      GameAfter(<<"alice">>, TRUE, LastRound),
      RollTimes(GameAfter(<<"alice">>, FALSE, 1), 1) }

OrderedStores == { ("g1" :> g) : g \in OrderedGames }

(* ------------------------------------------------------------------ *)
(* State after construction                                             *)
(* ------------------------------------------------------------------ *)

NoGame == NewGame(FALSE)
NoRequest == [op |-> "none", id |-> "", user |-> NoUser, arg |-> NoArg, rnd |-> <<>>]
NoResponse == [status |-> StatusAborted, msg |-> ""]
NoTrace == [locked |-> FALSE, unlocks |-> 0, saves |-> 0, emits |-> 0, at |-> 0]
\* locked: the handler got an unlocker from store.Lock; unlocks, saves, emits:
\* its calls of the unlocker, of Save (without error) and of Emit; at: the
\* number of mutations the session had accepted when it got the lock
NoConn == [state |-> "none", id |-> "", chan |-> <<>>, writer |-> "none",
           reader |-> "none", subAt |-> 0, dropped |-> FALSE]

\* what h.subscriber.Subscribe(gameID, ws) and go wsWriter / wsReader leave
Subscription(id, at) ==
    [state |-> "subscribed", id |-> id, chan |-> <<>>, writer |-> "run",
     reader |-> "run", subAt |-> at, dropped |-> FALSE]

\* the connections a behaviour starts with: none, or one observer of the
\* session that exists
InitConns(st) ==
    { [c \in Conns |-> NoConn] }
    \cup { [c \in Conns |-> IF c = 1 THEN Subscription(id, 0) ELSE NoConn] :
             id \in DOMAIN st }

InitFrom(stores) ==
    /\ store \in stores
    /\ lock = [id \in RequestIDs |-> {}]
    /\ pc = [p \in Procs |-> "idle"]
    /\ req = [p \in Procs |-> NoRequest]
    /\ local = [p \in Procs |-> NoGame]
    /\ resp = [p \in Procs |-> NoResponse]
    /\ trace = [p \in Procs |-> NoTrace]
    /\ nreq = 0
    /\ created = [id \in GameIDs |-> IF id \in DOMAIN store THEN 1 ELSE 0]
    /\ base = [id \in GameIDs |-> IF id \in DOMAIN store THEN store[id] ELSE NoGame]
    /\ commits = [id \in RequestIDs |-> <<>>]
    /\ emitted = [id \in RequestIDs |-> <<>>]
    /\ conn \in InitConns(store)
    /\ delivered = [c \in Conns |-> <<>>]

Init == InitFrom(InitStores)

\* a server whose store holds a session of OrderedGames
InitOrdered == InitFrom(OrderedStores)

\* the server with a session at one of the points of a game of InitGames
InitPlayed == InitFrom(InitStores \ { <<>> })

\* no session yet, or one session in which alice and bob play: for the
\* protocol of the handlers and the life of the observers
ObservedStores ==
    { <<>>, ("g1" :> RollTimes(GameAfter(<<"alice", "bob">>, FALSE, 0), 1)) }

InitObserved == InitFrom(ObservedStores)

(* ------------------------------------------------------------------ *)
(* The requests                                                         *)
(* ------------------------------------------------------------------ *)

Request(op, id, user, arg) == [op |-> op, id |-> id, user |-> user, arg |-> arg, rnd |-> <<>>]

\* Roll and Lock without the session lock
LockingOpsButRollAndLock == {"get", "hints", "join", "score", "ws"}

\* the handlers that call h.store.Lock(gameID) before they load the game
LockingOps == {"get", "hints", "join", "roll", "lock", "score", "ws"}

\* a goroutine is free to serve the next request; the server hands a request
\* to the first free goroutine
Free(p) ==
    /\ pc[p] = "idle"
    /\ \A q \in Procs : q < p => pc[q] # "idle"
    /\ nreq < MaxRequests

Response(status, msg) == [status |-> status, msg |-> msg]

\* the errors of the store: store.ErrNotExists, which Load returns for an id
\* without a session, and any other failure of Load or Save
ErrNotExists == "not exists"
ErrFailure == "store failure"

\* the static type of the package variable store.ErrNotExists: a sentinel of
\* type error, as made by errors.New
ErrNotExistsType == "error"

\* the dynamic type of an error value of the store
TypeOf(err) == "*errors.errorString"

\* reflect's Type.AssignableTo: every type of an error value is assignable to
\* the interface type error, another type only to itself
AssignableTo(type, targetType) == targetType = "error" \/ type = targetType

\* errors.As(err, &store.ErrNotExists) for err != nil: true when the type of
\* err is assignable to the type the target points to
ErrorsAs(err) == AssignableTo(TypeOf(err), ErrNotExistsType)

\* log.Printf("%s: %v", msg, err)
LogLine(msg, err) == msg \o ": " \o err

\* writeStoreError(w, r, err)
WriteStoreError(err) ==
    IF ErrorsAs(err)
    THEN Response(StatusNotFound, LogLine("not exists", err))
    ELSE Response(StatusInternalServerError, LogLine("unknown error", err))

\* http.ResponseWriter: the first status written is the status of the response
Written(r, status, msg) == IF r = NoResponse THEN Response(status, msg) ELSE r

\* the handler of p answers and returns without having called store.Lock:
\* no deferred call is pending, the status is what is left of the request
Answer(p, r, status, msg) ==
    /\ pc' = [pc EXCEPT ![p] = "returned"]
    /\ req' = [req EXCEPT ![p] = NoRequest]
    /\ local' = [local EXCEPT ![p] = NoGame]
    /\ resp' = [resp EXCEPT ![p] = Response(status, "")]
    /\ trace' = [trace EXCEPT ![p] = NoTrace]
    /\ nreq' = nreq + 1

\* Create: generateID, decode the features, Save a new game under the id
Create(p) ==
    /\ Free(p)
    /\ \E id \in GameIDs, body \in CreateInputs, saveErr \in BOOLEAN :
         LET r == Request("create", id, NoUser, NoArg)
         IN IF body = "{"
            THEN /\ Answer(p, r, StatusBadRequest, "create game")
                 /\ UNCHANGED << store, created, base, commits >>
            ELSE IF saveErr
            THEN /\ Answer(p, r, StatusInternalServerError, "create game")
                 /\ UNCHANGED << store, created, base, commits >>
            ELSE /\ Answer(p, r, StatusCreated, "game created")
                 /\ store' = (id :> NewGame(body = "ordered")) @@ store
                 /\ created' = [created EXCEPT ![id] = @ + 1]
                 /\ base' = [base EXCEPT ![id] = NewGame(body = "ordered")]
                 /\ commits' = [commits EXCEPT ![id] = <<>>]
    /\ UNCHANGED << lock, emitted, conn, delivered >>

\* readUser fails: AddPlayer, Roll, Lock and Score answer 401 before store.Lock
Unauthorized(p) ==
    /\ Free(p)
    /\ \E op \in {"join", "roll", "lock", "score"}, id \in GameIDs :
         Answer(p, Request(op, id, NoUser, NoArg), StatusUnauthorized, "no user in request")
    /\ UNCHANGED << store, lock, created, base, commits, emitted, conn, delivered >>

\* h.store.Lock(gameID) returns an error
LockError(p) ==
    /\ Free(p)
    /\ \E op \in LockingOps, id \in GameIDs :
         Answer(p, Request(op, id, NoUser, NoArg), StatusInternalServerError,
                "locking issue")
    /\ UNCHANGED << store, lock, created, base, commits, emitted, conn, delivered >>

\* unlocker, err := h.store.Lock(gameID) with err == nil: the handler of
\* request r waited until the session lock was free and holds it now
Enter(p, r) ==
    /\ Free(p)
    /\ IF r.op \in LockingOps
       THEN /\ lock[r.id] = {}
            /\ lock' = [lock EXCEPT ![r.id] = @ \cup {p}]
       ELSE lock' = lock
    /\ req' = [req EXCEPT ![p] = r]
    /\ trace' = [trace EXCEPT ![p] =
                   [NoTrace EXCEPT !.locked = r.op \in LockingOps,
                                   !.at = Len(commits[r.id])]]
    /\ nreq' = nreq + 1

\* h.store.Load(gameID) returns an error: store.ErrNotExists, or another one
\* (writeStoreError); the handler returns
LoadFail(p) ==
    /\ Free(p)
    /\ \E op \in LockingOps \ {"ws"}, id \in RequestIDs :
         Enter(p, Request(op, id, NoUser, NoArg))
    /\ IF req'[p].id \notin DOMAIN store
       THEN resp' = [resp EXCEPT ![p] = WriteStoreError(ErrNotExists)]
       ELSE resp' = [resp EXCEPT ![p] = WriteStoreError(ErrFailure)]
    /\ pc' = [pc EXCEPT ![p] = "ret"]
    /\ UNCHANGED << store, local, created, base, commits, emitted, conn, delivered >>

\* Get and HintsForGame: Lock, Load, write the game or its hints
Get(p) ==
    /\ Free(p)
    /\ \E id \in DOMAIN store : Enter(p, Request("get", id, NoUser, NoArg))
    /\ local' = [local EXCEPT ![p] = store[req'[p].id]]
    /\ resp' = [resp EXCEPT ![p] = Response(StatusOK, "game returned")]
    /\ pc' = [pc EXCEPT ![p] = "ret"]
    /\ UNCHANGED << store, created, base, commits, emitted, conn, delivered >>

HintsForGame(p) ==
    /\ Free(p)
    /\ \E id \in DOMAIN store : Enter(p, Request("hints", id, NoUser, NoArg))
    /\ local' = [local EXCEPT ![p] = store[req'[p].id]]
    /\ resp' = [resp EXCEPT ![p] = Response(StatusOK, "hints for game returned")]
    /\ pc' = [pc EXCEPT ![p] = "ret"]
    /\ UNCHANGED << store, created, base, commits, emitted, conn, delivered >>

\* writeError without the return that follows it
AfterTransitionNoReturn(res) == "save"

\* where a handler goes after its checks: writeError and return, or on to Save
AfterTransition(res) == IF res.kind = "ok" THEN "save" ELSE "ret"

\* the rest of a mutating handler between Load and Save
Proceed(p, res) ==
    /\ local' = [local EXCEPT ![p] = res.game]
    /\ pc' = [pc EXCEPT ![p] = AfterTransition(res)]
    /\ resp' = [resp EXCEPT ![p] =
                  IF res.kind = "ok" THEN NoResponse ELSE Response(res.status, res.msg)]
    /\ UNCHANGED << store, created, base, commits, emitted, conn, delivered >>

\* AddPlayer: Lock, Load, the checks, append the player
AddPlayer(p) ==
    /\ Free(p)
    /\ \E id \in DOMAIN store, user \in Users :
        /\ Enter(p, Request("join", id, user, NoArg))
        /\ Proceed(p, JoinTransition(store[id], user))

\* Roll: Lock, Load, the checks, roll the dices that are not locked
Roll(p) ==
    /\ Free(p)
    /\ \E id \in DOMAIN store, user \in Users, rnd \in Draws :
        LET res == RollTransition(store[id], user, rnd)
        IN /\ Enter(p, [Request("roll", id, user, NoArg) EXCEPT
                           !.rnd = IF res.kind = "ok" THEN rnd ELSE <<>>])
           /\ Proceed(p, res)

\* Lock: Lock, Load, readDiceIndex, the checks, toggle the dice
Lock(p) ==
    /\ Free(p)
    /\ \E id \in DOMAIN store, user \in Users, raw \in DiceInputs :
        /\ Enter(p, Request("lock", id, user, raw))
        /\ Proceed(p, LockTransition(store[id], user, raw))

\* Score: Lock, Load, the checks, score the category and pass the turn
Score(p) ==
    /\ Free(p)
    /\ \E id \in DOMAIN store, user \in Users, category \in CategoryInputs,
          hookFault \in BOOLEAN :
        /\ Enter(p, Request("score", id, user, category))
        /\ Proceed(p, ScoreTransition(store[id], user, category, hookFault))

\* the error of Save ignored
AfterSaveIgnoringError(err) == "emit"

\* where a mutating handler goes after h.store.Save: writeStoreError and
\* return, or on to Emit
AfterSave(err) == IF err THEN "ret" ELSE "emit"

\* the entry of an accepted mutation in the session's history
Commit(p) ==
    [op |-> req[p].op, user |-> req[p].user, arg |-> req[p].arg, rnd |-> req[p].rnd,
     at |-> trace[p].at, by |-> p]

\* h.store.Save(gameID, g)
Save(p) ==
    /\ pc[p] = "save"
    /\ \E err \in BOOLEAN :
         /\ pc' = [pc EXCEPT ![p] = AfterSave(err)]
         /\ IF err
            THEN /\ resp' = [resp EXCEPT ![p] =
                               Written(@, WriteStoreError(ErrFailure).status,
                                       WriteStoreError(ErrFailure).msg)]
                 /\ UNCHANGED << store, commits, trace >>
            ELSE /\ store' = (req[p].id :> local[p]) @@ store
                 /\ commits' = [commits EXCEPT ![req[p].id] = Append(@, Commit(p))]
                 /\ trace' = [trace EXCEPT ![p].saves = @ + 1]
                 /\ UNCHANGED resp
    /\ UNCHANGED << lock, req, local, nreq, created, base, emitted, conn, delivered >>

\* the changes a handler passes to Emit and writes as its response
Payload(op, g) ==
    CASE op = "join"  -> [Players |-> g.Players]
      [] op = "roll"  -> [Dices |-> g.Dices, RollCount |-> g.RollCount]
      [] op = "lock"  -> [Dices |-> g.Dices]
      [] op = "score" -> g

Event(p) ==
    [GameID |-> req[p].id, User |-> req[p].user, Kind |-> req[p].op,
     Payload |-> Payload(req[p].op, local[p])]

\* the event bus hands the event to every subscriber of the session; a
\* subscriber whose channel is full loses it
Publish(c, e) ==
    IF conn[c].state = "subscribed" /\ conn[c].id = e.GameID
    THEN IF Len(conn[c].chan) < MaxBuffer
         THEN [conn[c] EXCEPT !.chan = Append(@, e)]
         ELSE [conn[c] EXCEPT !.dropped = TRUE]
    ELSE conn[c]

\* w.WriteHeader(http.StatusCreated) in AddPlayer; the others answer 200
SuccessStatus(op) == IF op = "join" THEN StatusCreated ELSE StatusOK

\* unlocker() called between Save and Emit
ReleasedBeforeEmit(held, p) == held \ {p}

\* the holders of the session lock across Emit: unlocker is deferred, the
\* handler that emits has not called it
HeldAcrossEmit(held, p) == held

\* h.emitter.Emit(gameID, &user, kind, changes), then writeJSON
Emit(p) ==
    /\ pc[p] = "emit"
    /\ lock' = [lock EXCEPT ![req[p].id] = HeldAcrossEmit(@, p)]
    /\ emitted' = [emitted EXCEPT ![req[p].id] = Append(@, Event(p))]
    /\ conn' = [c \in Conns |-> Publish(c, Event(p))]
    /\ trace' = [trace EXCEPT ![p].emits = @ + 1]
    /\ resp' = [resp EXCEPT ![p] = Written(@, SuccessStatus(req[p].op), "")]
    /\ pc' = [pc EXCEPT ![p] = "ret"]
    /\ UNCHANGED << store, req, local, nreq, created, base, commits, delivered >>

\* unlocker() called at the end of the handler instead of deferred
UnlockAtEnd(r) == r.status \in {StatusOK, StatusCreated}

\* defer unlocker(): runs when the handler returns or panics, whatever it answered
DeferredUnlock(r) == TRUE

\* what is left of a request once its handler has returned
Kept(t) == [NoTrace EXCEPT !.locked = t.locked, !.unlocks = t.unlocks]

\* the handler returns or panics: the deferred calls run
Return(p) ==
    /\ pc[p] = "ret"
    /\ IF trace[p].locked /\ req[p].op # "ws" /\ DeferredUnlock(resp[p])
       THEN /\ lock' = [lock EXCEPT ![req[p].id] = @ \ {p}]
            /\ trace' = [trace EXCEPT ![p] = Kept([@ EXCEPT !.unlocks = @ + 1])]
       ELSE /\ lock' = lock
            /\ trace' = [trace EXCEPT ![p] = Kept(@)]
    /\ pc' = [pc EXCEPT ![p] = "returned"]
    /\ req' = [req EXCEPT ![p] = NoRequest]
    /\ local' = [local EXCEPT ![p] = NoGame]
    /\ resp' = [resp EXCEPT ![p] = Response(@.status, "")]
    /\ UNCHANGED << store, nreq, created, base, commits, emitted, conn, delivered >>

\* the request is over: the goroutine is free again
Finish(p) ==
    /\ pc[p] = "returned"
    /\ pc' = [pc EXCEPT ![p] = "idle"]
    /\ req' = [req EXCEPT ![p] = NoRequest]
    /\ local' = [local EXCEPT ![p] = NoGame]
    /\ resp' = [resp EXCEPT ![p] = NoResponse]
    /\ trace' = [trace EXCEPT ![p] = NoTrace]
    /\ UNCHANGED << store, lock, nreq, created, base, commits, emitted, conn, delivered >>

(* ------------------------------------------------------------------ *)
(* The websocket observers                                              *)
(* ------------------------------------------------------------------ *)

\* WS: unlock, err := h.store.Lock(gameID) with err == nil
WSLock(p) ==
    /\ Free(p)
    /\ \E c \in Conns : conn[c].state = "none"
    /\ \E id \in RequestIDs : Enter(p, Request("ws", id, NoUser, NoArg))
    /\ pc' = [pc EXCEPT ![p] = "load"]
    /\ local' = [local EXCEPT ![p] = NoGame]
    /\ resp' = [resp EXCEPT ![p] = NoResponse]
    /\ UNCHANGED << store, created, base, commits, emitted, conn, delivered >>

\* WS: _, err = h.store.Load(gameID); unlock(); then writeStoreError on err
WSLoad(p) ==
    /\ pc[p] = "load"
    /\ lock' = [lock EXCEPT ![req[p].id] = @ \ {p}]
    /\ trace' = [trace EXCEPT ![p].unlocks = @ + 1]
    /\ \/ /\ req[p].id \in DOMAIN store
          /\ pc' = [pc EXCEPT ![p] = "upgrade"]
          /\ UNCHANGED resp
       \/ /\ req[p].id \notin DOMAIN store
          /\ pc' = [pc EXCEPT ![p] = "ret"]
          /\ resp' = [resp EXCEPT ![p] = WriteStoreError(ErrNotExists)]
       \/ /\ req[p].id \in DOMAIN store
          /\ pc' = [pc EXCEPT ![p] = "ret"]
          /\ resp' = [resp EXCEPT ![p] = WriteStoreError(ErrFailure)]
    /\ UNCHANGED << store, req, local, nreq, created, base, commits, emitted, conn, delivered >>

\* the connection a websocket upgrade gets: the first unused one
FreeConn(c) == conn[c].state = "none" /\ \A d \in Conns : d < c => conn[d].state # "none"

\* upgrader.Upgrade(w, r, nil), then h.subscriber.Subscribe(gameID, ws),
\* go wsWriter(...) and wsReader(...); either call may fail, and then the
\* handler returns
WSSubscribe(p) ==
    /\ pc[p] = "upgrade"
    /\ \/ /\ \E c \in Conns :
               /\ FreeConn(c)
               /\ conn' = [conn EXCEPT ![c] =
                             Subscription(req[p].id, Len(emitted[req[p].id]))]
          /\ resp' = [resp EXCEPT ![p] = Response(StatusOK, "reading")]
       \/ /\ resp' = [resp EXCEPT ![p] = Response(StatusBadRequest, "handshake")]
          /\ UNCHANGED conn
       \/ /\ resp' = [resp EXCEPT ![p] =
                        Response(StatusInternalServerError, "unable to subscribe")]
          /\ UNCHANGED conn
    /\ pc' = [pc EXCEPT ![p] = "ret"]
    /\ UNCHANGED << store, lock, req, local, trace, nreq, created, base, commits,
                    emitted, delivered >>

\* the deferred function without s.Unsubscribe(gameID, ws)
StillSubscribed(c) == conn[c]

\* s.Unsubscribe(gameID, ws); ws.Close(): the subscription and its channel
\* are gone; calling it again changes nothing
Unsubscribed(c) == [conn[c] EXCEPT !.state = "closed", !.chan = <<>>]

\* the connection once a goroutine of it has returned: when both have, nothing
\* of it is left
Left(cn) == IF cn.writer = "done" /\ cn.reader = "done" THEN NoConn ELSE cn

\* the event taken from the channel and not written
WriteJSONSkipped(ws, e) == ws

\* what the connection has received after ws.WriteJSON(e)
WriteJSON(ws, e) == Append(ws, e)

\* wsWriter: case e := <-events: ws.WriteJSON(e) succeeds
WriterDeliver(c) ==
    /\ conn[c].writer = "run"
    /\ conn[c].state = "subscribed"
    /\ conn[c].chan # <<>>
    /\ delivered' = [delivered EXCEPT ![c] = WriteJSON(@, Head(conn[c].chan))]
    /\ conn' = [conn EXCEPT ![c].chan = Tail(@)]
    /\ UNCHANGED << store, lock, pc, req, local, resp, trace, nreq, created, base,
                    commits, emitted >>

\* wsWriter: a write of an event or of a ping fails; the deferred function
\* unsubscribes and closes the connection
WriterFail(c) ==
    /\ conn[c].writer = "run"
    /\ conn' = [conn EXCEPT ![c] = Left([Unsubscribed(c) EXCEPT !.writer = "done"])]
    /\ delivered' = [delivered EXCEPT ![c] = <<>>]
    /\ UNCHANGED << store, lock, pc, req, local, resp, trace, nreq, created, base,
                    commits, emitted >>

\* wsReader: ws.ReadMessage fails; the deferred function unsubscribes and
\* closes the connection, and WS returns
ReaderFail(c) ==
    /\ conn[c].reader = "run"
    /\ conn' = [conn EXCEPT ![c] = Left([Unsubscribed(c) EXCEPT !.reader = "done"])]
    /\ delivered' = [delivered EXCEPT ![c] = <<>>]
    /\ UNCHANGED << store, lock, pc, req, local, resp, trace, nreq, created, base,
                    commits, emitted >>

(* ------------------------------------------------------------------ *)
(* Specification                                                        *)
(* ------------------------------------------------------------------ *)

Next ==
    \/ \E c \in Conns : WriterDeliver(c) \/ WriterFail(c) \/ ReaderFail(c)
    \/ \E p \in Procs :
        \/ Create(p)
        \/ Unauthorized(p)
        \/ LockError(p)
        \/ LoadFail(p)
        \/ Get(p)
        \/ HintsForGame(p)
        \/ AddPlayer(p)
        \/ Roll(p)
        \/ Lock(p)
        \/ Score(p)
        \/ Save(p)
        \/ Emit(p)
        \/ Return(p)
        \/ Finish(p)
        \/ WSLock(p)
        \/ WSLoad(p)
        \/ WSSubscribe(p)

Spec == Init /\ [][Next]_vars

\* the same server, started with a session: for the rules of the game
SpecPlayed == InitPlayed /\ [][Next]_vars

\* the same server, started with a session that has the ordered-categories
\* feature
SpecOrdered == InitOrdered /\ [][Next]_vars

\* ws.Close() in the deferred function of one goroutine of a connection
\* fails the other: ws.ReadMessage of wsReader returns an error, and the
\* next write of wsWriter, at the latest the ping of pingTicker, fails
ClosedUnderWriter(c) == conn[c].state = "closed" /\ WriterFail(c)

ClosedUnderReader(c) == conn[c].state = "closed" /\ ReaderFail(c)

Fairness ==
    \A c \in Conns : WF_vars(ClosedUnderWriter(c)) /\ WF_vars(ClosedUnderReader(c))

\* the server with an observed session, its goroutines scheduled fairly
\* where a closed connection makes them fail
SpecObserved == InitObserved /\ [][Next]_vars /\ Fairness

(* ------------------------------------------------------------------ *)
(* Properties                                                           *)
(* ------------------------------------------------------------------ *)

Mutating == {"join", "roll", "lock", "score"}

\* the session of id exists and no later Create has replaced its game
Session(id) == id \in DOMAIN store /\ created[id] = 1

\* the outcome of the transition of an accepted mutation e on game g
ApplyCommit(g, e) ==
    CASE e.op = "join"  -> JoinTransition(g, e.user)
      [] e.op = "roll"  -> RollTransition(g, e.user, e.rnd)
      [] e.op = "lock"  -> LockTransition(g, e.user, e.arg)
      [] e.op = "score" -> ScoreTransition(g, e.user, e.arg, FALSE)

\* the mutations of log applied to g one at a time, in the order of log
RECURSIVE Replay(_, _)
Replay(g, log) ==
    IF log = <<>> THEN g ELSE Replay(ApplyCommit(g, Head(log)).game, Tail(log))

\* every mutation of log is accepted when they are applied one at a time
RECURSIVE ReplayAccepts(_, _)
ReplayAccepts(g, log) ==
    \/ log = <<>>
    \/ /\ ApplyCommit(g, Head(log)).kind = "ok"
       /\ ReplayAccepts(ApplyCommit(g, Head(log)).game, Tail(log))

\* the game of session id after its first n accepted mutations
GameAt(id, n) == Replay(base[id], SubSeq(commits[id], 1, n))

\* C1: the stored game of a session is the result of applying its accepted
\* mutations one at a time in the order in which they got the session lock:
\* each of them was computed from the game its predecessor saved, none is
\* lost and none is applied twice.
C1_Serializable ==
    \A id \in GameIDs :
        Session(id) =>
            /\ store[id] = Replay(base[id], commits[id])
            /\ ReplayAccepts(base[id], commits[id])
            /\ \A i \in 1..Len(commits[id]) : commits[id][i].at = i - 1

\* two requests of different goroutines, the second one begun while the
\* first was in flight, were both accepted
C1_Witness ==
    \E id \in GameIDs :
        /\ Session(id)
        /\ Len(commits[id]) = 2
        /\ commits[id][1].by # commits[id][2].by
        /\ \A i \in 1..2 : commits[id][i].op \in {"roll", "lock", "score"}

\* the goroutines whose handler holds an unlocker it has not called yet
Holding(p) == trace[p].locked /\ trace[p].unlocks = 0

\* C2: a handler that got the session lock calls its unlocker exactly once
\* on every way out: it holds the lock exactly from store.Lock to the end of
\* the handler (WS: to the unlock() after Load), and once the handler has
\* returned or panicked the lock is not held by it.
C2_LockReleased ==
    \A p \in Procs :
        /\ \A id \in RequestIDs : p \in lock[id] <=> (Holding(p) /\ req[p].id = id)
        /\ trace[p].unlocks <= 1
        /\ pc[p] \in {"idle", "returned", "upgrade"} => ~Holding(p)
        /\ (pc[p] \in {"returned", "upgrade"} /\ trace[p].locked) => trace[p].unlocks = 1

\* a Score handler that panicked in the scoring policy has returned and the
\* lock it held is free
C2_Witness ==
    \E p \in Procs :
        /\ pc[p] = "returned"
        /\ resp[p].status = StatusAborted
        /\ trace[p].locked /\ trace[p].unlocks = 1
        /\ \A id \in RequestIDs : lock[id] = {}

\* the handler of p answered with the status of a failed check
Rejecting(p) ==
    /\ req[p].op \in Mutating
    /\ pc[p] \in {"save", "emit", "ret"}
    /\ resp[p].status \in {StatusBadRequest, StatusConflict}

\* C3: a Join, Roll, Lock or Score that a check rejects returns at once:
\* Save and Emit are not called and the stored game is the game it loaded.
C3_RejectedUnchanged ==
    \A p \in Procs :
        Rejecting(p) =>
            /\ pc[p] = "ret"
            /\ trace[p].saves = 0
            /\ trace[p].emits = 0
            /\ Session(req[p].id) => store[req[p].id] = local[p]

\* a Score of a category the player has used already was rejected, in a
\* session that has accepted a mutation before
C3_Witness ==
    \E p \in Procs :
        /\ Rejecting(p)
        /\ req[p].op = "score"
        /\ resp[p].msg = "category is already used"
        /\ Session(req[p].id)
        /\ store[req[p].id].Round > 0

\* the event of the i-th accepted mutation of session id
EventOfCommit(id, i) ==
    [GameID |-> id, User |-> commits[id][i].user, Kind |-> commits[id][i].op,
     Payload |-> Payload(commits[id][i].op, GameAt(id, i))]

\* C4: a handler emits at most one event and only after its Save succeeded;
\* an accepted mutation has emitted exactly one event when its handler
\* returns, one whose Save failed none; the events of a session are the
\* events of its saved mutations, in the order of the Saves.
C4_EventAfterSave ==
    /\ \A p \in Procs :
          /\ trace[p].emits <= trace[p].saves
          /\ trace[p].saves <= 1
          /\ (pc[p] = "ret" /\ req[p].op \in Mutating) =>
                /\ resp[p].status \in {StatusOK, StatusCreated} =>
                      trace[p].saves = 1 /\ trace[p].emits = 1
                /\ resp[p].status \in {StatusNotFound, StatusInternalServerError} =>
                      trace[p].emits = 0
                /\ trace[p].saves = 1 => trace[p].emits = 1
    /\ \A id \in GameIDs :
          Session(id) =>
              /\ Len(emitted[id]) <= Len(commits[id])
              /\ \A i \in 1..Len(emitted[id]) : emitted[id][i] = EventOfCommit(id, i)

\* a Roll was saved and its event, the only one of the session, emitted
C4_Witness ==
    \E p \in Procs :
        /\ pc[p] = "ret"
        /\ req[p].op = "roll"
        /\ resp[p].status = StatusOK
        /\ trace[p].saves = 1 /\ trace[p].emits = 1
        /\ Len(commits[req[p].id]) = 1
        /\ emitted[req[p].id] = << EventOfCommit(req[p].id, 1) >>

\* the events of the accepted mutations n+1, n+2, ... of session id that have
\* been emitted
RECURSIVE EventsFrom(_, _)
EventsFrom(id, n) ==
    IF n >= Len(emitted[id]) THEN <<>>
    ELSE << EventOfCommit(id, n + 1) >> \o EventsFrom(id, n + 1)

\* C5: what a subscriber has been sent and what waits in its channel are the
\* events of the mutations accepted since it subscribed, in the order of
\* their Saves, none missing, as long as its channel was never full.
C5_EventOrder ==
    \A c \in Conns :
        (conn[c].state = "subscribed" /\ ~conn[c].dropped /\ Session(conn[c].id)) =>
            delivered[c] \o conn[c].chan = EventsFrom(conn[c].id, conn[c].subAt)

\* a subscriber has been sent the events of two mutations, in their order
C5_Witness ==
    \E c \in Conns :
        /\ conn[c].state = "subscribed"
        /\ Session(conn[c].id)
        /\ Len(delivered[c]) = 2
        /\ delivered[c][1] = EventOfCommit(conn[c].id, 1)
        /\ delivered[c][2] = EventOfCommit(conn[c].id, 2)
        /\ delivered[c][1] # delivered[c][2]

\* the transition of the handler of p was accepted and is not saved yet: the
\* stored game is the game it loaded, local[p] the game it will save
Accepted(p, op) ==
    /\ pc[p] = "save"
    /\ req[p].op = op
    /\ resp[p] = NoResponse
    /\ Session(req[p].id)

\* a check of the handler of p rejected the request
Rejected(p, op) ==
    /\ pc[p] = "ret"
    /\ req[p].op = op
    /\ resp[p].status \in {StatusBadRequest, StatusConflict}
    /\ Session(req[p].id)

UsersOf(players) == [i \in 1..Len(players) |-> players[i].User]

RECURSIVE JoinedUsers(_)
JoinedUsers(log) ==
    IF log = <<>> THEN <<>>
    ELSE (IF Head(log).op = "join" THEN << Head(log).user >> ELSE <<>>)
         \o JoinedUsers(Tail(log))

\* the conditions under which the claim says Join is rejected
JoinRejected(g, user) ==
    \/ g.Round > 0
    \/ g.CurrentPlayer > 0
    \/ \E i \in 1..Len(g.Players) : g.Players[i].User = user

\* C6: Join is rejected exactly when the game has round > 0 or
\* currentPlayerIndex > 0 or the user is among Players already; an accepted
\* Join appends the user with an empty score sheet and changes nothing else.
\* No stored game has the same user twice, and the players of a session are
\* those it started with followed by the users of its accepted Joins, in the
\* order in which they were accepted.
C6_Join ==
    /\ \A p \in Procs :
          /\ Accepted(p, "join") =>
                /\ ~JoinRejected(store[req[p].id], req[p].user)
                /\ local[p] = [store[req[p].id] EXCEPT
                                 !.Players = Append(@, [User |-> req[p].user,
                                                        ScoreSheet |-> <<>>])]
          /\ Rejected(p, "join") => JoinRejected(store[req[p].id], req[p].user)
    /\ \A id \in DOMAIN store :
          /\ \A i, j \in 1..Len(store[id].Players) :
                store[id].Players[i].User = store[id].Players[j].User => i = j
          /\ Session(id) =>
                UsersOf(store[id].Players)
                    = UsersOf(base[id].Players) \o JoinedUsers(commits[id])

\* bob, then alice, have joined a new game: bob has the first seat
C6_Witness ==
    \E id \in GameIDs :
        /\ Session(id)
        /\ base[id].Players = <<>>
        /\ Len(commits[id]) = 2
        /\ UsersOf(store[id].Players) = << "bob", "alice" >>

\* the conditions under which the claim says Roll is rejected
RollRejected(g, user) ==
    \/ Len(g.Players) = 0
    \/ user # g.Players[g.CurrentPlayer + 1].User
    \/ g.Round >= 13
    \/ g.RollCount >= 3

\* C7: Roll is rejected exactly when no player has joined, the user is not
\* the current player, round >= 13 or rollCount >= 3; an accepted Roll adds
\* one to rollCount, gives every dice that is not locked a value in 1..6 and
\* changes neither a locked dice nor the locked flags, the players, their
\* score sheets, currentPlayerIndex or round.
C7_Roll ==
    \A p \in Procs :
        /\ Accepted(p, "roll") =>
              LET g == store[req[p].id]
                  h == local[p]
              IN /\ ~RollRejected(g, req[p].user)
                 /\ h.RollCount = g.RollCount + 1
                 /\ Len(h.Dices) = Len(g.Dices)
                 /\ \A i \in 1..Len(g.Dices) :
                       /\ h.Dices[i].Locked = g.Dices[i].Locked
                       /\ g.Dices[i].Locked => h.Dices[i].Value = g.Dices[i].Value
                       /\ h.Dices[i].Value \in 1..6
                 /\ h = [g EXCEPT !.RollCount = h.RollCount, !.Dices = h.Dices]
        /\ Rejected(p, "roll") => RollRejected(store[req[p].id], req[p].user)

\* a Roll with the first dice locked: it keeps its value, the second dice
\* gets a new one
C7_Witness ==
    \E p \in Procs :
        /\ Accepted(p, "roll")
        /\ store[req[p].id].Dices[1].Locked
        /\ local[p].Dices[1] = store[req[p].id].Dices[1]
        /\ local[p].Dices[2].Value # store[req[p].id].Dices[2].Value
        /\ local[p].Dices[1].Value # local[p].Dices[2].Value

\* the index ToggleLock selects, when the path variable is one of 0..4
ValidIndexes == [raw \in {"0", "1", "2", "3", "4"} |->
                    CHOOSE i \in 0..4 : DigitStrings[i + 1] = raw]

\* the conditions under which the claim says ToggleLock is rejected
LockRejected(g, user, raw) ==
    \/ raw \notin DOMAIN ValidIndexes
    \/ g.RollCount = 0
    \/ RollRejected(g, user)

\* C8: ToggleLock is rejected exactly when rollCount = 0, the dice index is
\* not one of 0..4 or Roll would be rejected; an accepted ToggleLock flips
\* the locked flag of the selected dice and changes nothing else; after two
\* accepted ToggleLocks of the same index in a row the game is what it was
\* before the first.
C8_ToggleLock ==
    /\ \A p \in Procs :
          /\ Accepted(p, "lock") =>
                LET g == store[req[p].id]
                    h == local[p]
                IN /\ ~LockRejected(g, req[p].user, req[p].arg)
                   /\ LET d == ValidIndexes[req[p].arg] + 1
                      IN h = [g EXCEPT !.Dices[d].Locked = ~g.Dices[d].Locked]
          /\ Rejected(p, "lock") =>
                LockRejected(store[req[p].id], req[p].user, req[p].arg)
    /\ \A id \in GameIDs :
          Session(id) =>
              \A i \in 2..Len(commits[id]) :
                  ( /\ commits[id][i - 1].op = "lock"
                    /\ commits[id][i].op = "lock"
                    /\ commits[id][i - 1].arg = commits[id][i].arg )
                  => (IF i = Len(commits[id]) THEN store[id] ELSE GameAt(id, i))
                         = GameAt(id, i - 2)

\* the last dice was locked and unlocked again: the stored game is the game
\* before the two requests
C8_Witness ==
    \E id \in GameIDs :
        /\ Session(id)
        /\ Len(commits[id]) = 2
        /\ commits[id][1].op = "lock" /\ commits[id][1].arg = "4"
        /\ commits[id][2].op = "lock" /\ commits[id][2].arg = "4"
        /\ GameAt(id, 1).Dices[5].Locked
        /\ store[id] = base[id]

\* C9: an accepted Score of the player at seat i writes the score of the
\* category into the score sheet of that player only, unlocks every dice,
\* sets rollCount to 0 and currentPlayerIndex to (i + 1) mod playerCount, and
\* adds one to round exactly when the new currentPlayerIndex is 0.
C9_Score ==
    \A p \in Procs :
        Accepted(p, "score") =>
            LET g == store[req[p].id]
                h == local[p]
                i == g.CurrentPlayer
                c == req[p].arg
            IN /\ Len(h.Players) = Len(g.Players)
               /\ \A j \in 1..Len(g.Players) :
                     j # i + 1 => h.Players[j] = g.Players[j]
               /\ h.Players[i + 1].User = g.Players[i + 1].User
               /\ DOMAIN h.Players[i + 1].ScoreSheet
                     = DOMAIN g.Players[i + 1].ScoreSheet \cup {c}
               /\ \A k \in DOMAIN g.Players[i + 1].ScoreSheet :
                     h.Players[i + 1].ScoreSheet[k] = g.Players[i + 1].ScoreSheet[k]
               /\ h.Players[i + 1].ScoreSheet[c] = Scorer(c, g)
               /\ Len(h.Dices) = 5
               /\ \A d \in 1..5 :
                     ~h.Dices[d].Locked /\ h.Dices[d].Value = g.Dices[d].Value
               /\ h.RollCount = 0
               /\ h.CurrentPlayer = (i + 1) % Len(g.Players)
               /\ h.Round = IF h.CurrentPlayer = 0 THEN g.Round + 1 ELSE g.Round
               /\ h.Ordered = g.Ordered

\* alice and bob have joined, alice has rolled 1 1 2 3 4 and scores ones: 2
\* on her sheet, bob's turn, rollCount 0, round 0
C9_Witness ==
    \E p \in Procs :
        /\ Accepted(p, "score")
        /\ req[p].user = "alice" /\ req[p].arg = "ones"
        /\ UsersOf(store[req[p].id].Players) = << "alice", "bob" >>
        /\ DiceValues(store[req[p].id]) = << 1, 1, 2, 3, 4 >>
        /\ local[p].Players[1].ScoreSheet = ("ones" :> 2)
        /\ local[p].Players[2].ScoreSheet = <<>>
        /\ local[p].CurrentPlayer = 1
        /\ local[p].RollCount = 0
        /\ local[p].Round = 0

\* the conditions of Roll that reject a Score too, and the two of Score
ScoreRejected(g, user, category) ==
    \/ Len(g.Players) = 0
    \/ user # g.Players[g.CurrentPlayer + 1].User
    \/ g.Round >= 13
    \/ g.RollCount = 0
    \/ category \in DOMAIN g.Players[g.CurrentPlayer + 1].ScoreSheet

\* C10 as claimed: Score is rejected wherever Roll is rejected, also when
\* rollCount >= 3, and when rollCount = 0 or the category is used.
C10_ScoreRejectedLikeRoll ==
    \A p \in Procs :
        Accepted(p, "score") =>
            /\ ~RollRejected(store[req[p].id], req[p].user)
            /\ ~ScoreRejected(store[req[p].id], req[p].user, req[p].arg)

\* C10: Score is rejected when no player has joined, the user is not the
\* current player, round >= 13, rollCount = 0 or the score sheet of the
\* player has the category already; rollCount >= 3 does not reject it.
C10_ScorePreconditions ==
    \A p \in Procs :
        Accepted(p, "score") =>
            ~ScoreRejected(store[req[p].id], req[p].user, req[p].arg)

\* a Score after the third roll of the turn is accepted
C10_Witness ==
    \E p \in Procs :
        /\ Accepted(p, "score")
        /\ store[req[p].id].RollCount >= 3
        /\ RollRejected(store[req[p].id], req[p].user)

\* the category an ordered-categories session permits in the round of g
PermittedCategory(g) == Categories[g.Round + 1]

\* C11: in a session with the ordered-categories feature a Score is accepted
\* only for the category at position round of the category ordering, and a
\* Score of any other category is rejected with nothing saved and the stored
\* game unchanged; in a session without the feature a Score of the current
\* player after a roll is rejected only for a category that is not in the
\* scoring table or that the player has used.
C11_OrderedCategories ==
    \A p \in Procs :
        LET g == store[req[p].id]
        IN /\ (Accepted(p, "score") /\ g.Ordered) =>
                  req[p].arg = PermittedCategory(g)
           /\ (Rejected(p, "score") /\ g.Ordered) =>
                  /\ trace[p].saves = 0
                  /\ local[p] = g
                  /\ \/ ScoreRejected(g, req[p].user, req[p].arg)
                     \/ req[p].arg # PermittedCategory(g)
           /\ (Rejected(p, "score") /\ ~g.Ordered) =>
                  \/ ScoreRejected(g, req[p].user, req[p].arg)
                  \/ req[p].arg \notin CategorySet

\* in an ordered-categories session the current player has rolled and scores
\* a category of the table that is unused but not the one of the round: rejected
C11_Witness ==
    \E p \in Procs :
        /\ Rejected(p, "score")
        /\ store[req[p].id].Ordered
        /\ req[p].arg \in CategorySet
        /\ ~ScoreRejected(store[req[p].id], req[p].user, req[p].arg)
        /\ req[p].arg # PermittedCategory(store[req[p].id])
        /\ store[req[p].id] = local[p]

Hinted(p) ==
    /\ pc[p] = "ret"
    /\ req[p].op = "hints"
    /\ resp[p].status = StatusOK

\* the body of the answer of a Hints request: hints(&g) of the loaded game
HintsResponse(p) == Hints(local[p])

\* c is the category at position round of the category ordering
AtRound(g, c) == g.Round < Len(Categories) /\ Categories[g.Round + 1] = c

\* C13 as claimed: Hints leaves the stored game as it was, saves and publishes
\* nothing, and returns for every category of the scoring table the value of
\* its scorer, except that in an ordered-categories session every category
\* other than the one at position round is 0.
C13_Hints ==
    \A p \in Procs :
        Hinted(p) =>
            /\ trace[p].saves = 0
            /\ trace[p].emits = 0
            /\ Session(req[p].id) => local[p] = store[req[p].id]
            /\ \A c \in CategorySet :
                   HintsResponse(p)[c] =
                       IF HasOrdered(local[p]) /\ ~AtRound(local[p], c)
                       THEN 0
                       ELSE Scorer(c, local[p])

\* what holds of C13: nothing is saved or published, and while round < 13 the
\* categories an ordered-categories session does not permit are 0
C13_HintsBeforeGameOver ==
    \A p \in Procs :
        Hinted(p) =>
            /\ trace[p].saves = 0
            /\ trace[p].emits = 0
            /\ Session(req[p].id) => local[p] = store[req[p].id]
            /\ \A c \in CategorySet :
                   HintsResponse(p)[c] =
                       IF /\ HasOrdered(local[p])
                          /\ local[p].Round < LastRound
                          /\ ~AtRound(local[p], c)
                       THEN 0
                       ELSE Scorer(c, local[p])

\* Hints of a finished ordered-categories session: a category is not 0
C13_Witness ==
    \E p \in Procs :
        /\ Hinted(p)
        /\ HasOrdered(local[p])
        /\ local[p].Round = LastRound
        /\ \E c \in CategorySet : HintsResponse(p)[c] > 0

\* the bounds of the counters of a game and of its current player index
InRange(g) ==
    /\ g.RollCount \in 0..MaxRolls
    /\ g.Round \in 0..LastRound
    /\ IF Len(g.Players) = 0
       THEN g.CurrentPlayer = 0
       ELSE g.CurrentPlayer \in 0..(Len(g.Players) - 1)

\* C14: every stored game has 0 <= rollCount <= 3, 0 <= round <= 13 and a
\* current player index that is 0 when no player has joined and an index of
\* Players otherwise; so is every game a Roll, a Lock or a Score has loaded
\* and every game it is about to save.
C14_Ranges ==
    /\ \A id \in DOMAIN store : InRange(store[id])
    /\ \A p \in Procs :
           (req[p].op \in {"roll", "lock", "score"} /\ pc[p] \in {"save", "ret", "emit"})
               => InRange(local[p])

\* a third Roll of a turn has been saved: the stored rollCount is at its bound
C14_Witness ==
    \E p \in Procs :
        /\ pc[p] = "emit"
        /\ req[p].op = "roll"
        /\ store[req[p].id].RollCount = MaxRolls
        /\ base[req[p].id].RollCount < MaxRolls
        /\ Len(store[req[p].id].Players) = 2

\* the entries of the score sheets of g are in h with the same values
KeepsEntries(g, h) ==
    \A i \in 1..Len(g.Players) :
        /\ i <= Len(h.Players)
        /\ h.Players[i].User = g.Players[i].User
        /\ \A c \in DOMAIN g.Players[i].ScoreSheet :
               /\ c \in DOMAIN h.Players[i].ScoreSheet
               /\ h.Players[i].ScoreSheet[c] = g.Players[i].ScoreSheet[c]

\* C15 as claimed: no step of any request changes or removes an entry of a
\* score sheet of a stored game, and no Score is accepted for a category the
\* score sheet of the acting player holds.
C15_WriteOnce ==
    [][/\ \A id \in DOMAIN store : KeepsEntries(store[id], store'[id])
       /\ \A p \in Procs :
              (pc[p] = "save" /\ req[p].op = "score" /\ pc'[p] = "emit") =>
                  req[p].arg \notin DOMAIN CurrentPlayerOf(store[req[p].id]).ScoreSheet
      ]_vars

\* what holds of C15: the same as long as no Create replaces the session
C15_WriteOnceInSession ==
    [][/\ \A id \in DOMAIN store :
              created'[id] = created[id] => KeepsEntries(store[id], store'[id])
       /\ \A p \in Procs :
              (Session(req[p].id) /\ pc[p] = "save" /\ req[p].op = "score"
                   /\ pc'[p] = "emit") =>
                  req[p].arg \notin DOMAIN CurrentPlayerOf(store[req[p].id]).ScoreSheet
      ]_vars

\* a request has loaded the game of a session in which a player has an entry,
\* and before it returns the session holds the empty game of a later Create
C15_Witness ==
    \E p \in Procs :
        /\ pc[p] = "ret"
        /\ req[p].op \in {"get", "hints"}
        /\ resp[p].status = StatusOK
        /\ \E i \in 1..Len(local[p].Players) :
               DOMAIN local[p].Players[i].ScoreSheet # {}
        /\ created[req[p].id] > 1
        /\ store[req[p].id].Players = <<>>

\* C16 as claimed: a game is first stored as the empty game of a Create, and
\* every later change of the game stored under an id is the Save of an
\* accepted Join, Roll, Lock or Score on that id; no Create writes under an
\* id that has a stored game.
C16_OnlyTransitions ==
    [][\A id \in GameIDs :
           /\ (id \notin DOMAIN store /\ id \in DOMAIN store') =>
                  store'[id] \in {NewGame(FALSE), NewGame(TRUE)}
           /\ (id \in DOMAIN store /\ store'[id] # store[id]) =>
                  \E p \in Procs :
                      /\ pc[p] = "save"
                      /\ req[p].op \in Mutating
                      /\ req[p].id = id
                      /\ store'[id] = local[p]
      ]_vars

\* what holds of C16: the same for every step but the Save of a Create
C16_OnlyTransitionsButCreate ==
    [][\A id \in GameIDs :
           (id \in DOMAIN store /\ store'[id] # store[id] /\ created'[id] = created[id]) =>
                  \E p \in Procs :
                      /\ pc[p] = "save"
                      /\ req[p].op \in Mutating
                      /\ req[p].id = id
                      /\ store'[id] = local[p]
      ]_vars

\* a Create has drawn the id of a session in which alice and bob play and
\* its Save has replaced their game
C16_Witness ==
    \E id \in DOMAIN store :
        /\ created[id] = 2
        /\ store[id] \in {NewGame(FALSE), NewGame(TRUE)}
        /\ store[id] = base[id]

\* a goroutine of connection c has returned
Terminated(c) == conn[c].writer = "done" \/ conn[c].reader = "done"

\* C17: once wsWriter or wsReader of a connection has returned, after a write
\* or a read failed, Unsubscribe has been called: the connection is not
\* subscribed and its channel is gone, also after the second call; and the
\* other goroutine returns too, after which nothing of the connection is left.
C17_Cancellation ==
    /\ [](\A c \in Conns :
             /\ Terminated(c) => (conn[c].state = "closed" /\ conn[c].chan = <<>>)
             /\ conn[c].state = "subscribed" =>
                    (conn[c].writer = "run" /\ conn[c].reader = "run")
             /\ conn[c].state = "none" => conn[c] = NoConn)
    /\ \A c \in Conns : Terminated(c) ~> (conn[c] = NoConn)

\* a write to an observer that has received an event failed: wsWriter has
\* returned and wsReader has not yet
C17_Witness ==
    \E c \in Conns :
        /\ conn[c].writer = "done"
        /\ conn[c].reader = "run"
        /\ conn[c].state = "closed"
        /\ \E id \in GameIDs : Len(emitted[id]) > 0

\* the request of p has ended with the store error err of Load or Save
StoreFailed(p, err) ==
    /\ pc[p] = "ret"
    /\ resp[p].msg \in {LogLine("not exists", err), LogLine("unknown error", err)}

\* C18 as claimed: a request whose Load found no session under its id is
\* answered 404, and a request whose Load of an existing session or whose
\* Save failed is answered 500.
C18_Classification ==
    \A p \in Procs :
        /\ StoreFailed(p, ErrNotExists) => resp[p].status = StatusNotFound
        /\ StoreFailed(p, ErrFailure) => resp[p].status = StatusInternalServerError

\* the Save of a Roll that had passed its checks failed, and the request is
\* answered 404
C18_Witness ==
    \E p \in Procs :
        /\ StoreFailed(p, ErrFailure)
        /\ req[p].op = "roll"
        /\ req[p].id \in DOMAIN store
        /\ trace[p].saves = 0
        /\ local[p].RollCount = store[req[p].id].RollCount + 1
        /\ resp[p].status = StatusNotFound

\* C19 as claimed: the handler of a mutation has released the session lock
\* when it publishes the event: it does not hold the lock when it is about to
\* call Emit, nor once it has called it.
C19_PublishAfterUnlock ==
    \A p \in Procs :
        (req[p].op \in Mutating /\ (pc[p] = "emit" \/ trace[p].emits > 0)) =>
            /\ ~Holding(p)
            /\ p \notin lock[req[p].id]

\* C19: the handler of a mutation holds the session lock from store.Lock to
\* its return: across Load, the transition and Save, and also across Emit,
\* which it calls after its Save succeeded and before the deferred unlocker
\* runs; the order is Lock, Load, transition, Save, Publish, Unlock.
C19_PublishUnderLock ==
    \A p \in Procs :
        req[p].op \in Mutating =>
            /\ pc[p] \in {"save", "emit", "ret"} =>
                   (Holding(p) /\ p \in lock[req[p].id])
            /\ pc[p] = "save" => (trace[p].saves = 0 /\ trace[p].emits = 0)
            /\ pc[p] = "emit" => (trace[p].saves = 1 /\ trace[p].emits = 0)
            /\ trace[p].emits > 0 => (pc[p] = "ret" /\ trace[p].saves = 1)

\* a Roll has saved and emitted, its event waits in the channel of an
\* observer, and its handler still holds the session lock
C19_Witness ==
    \E p \in Procs, c \in Conns :
        /\ req[p].op = "roll"
        /\ pc[p] = "ret"
        /\ trace[p].emits = 1
        /\ p \in lock[req[p].id]
        /\ conn[c].id = req[p].id
        /\ conn[c].chan # <<>>
        /\ conn[c].chan[Len(conn[c].chan)].Kind = "roll"

\* the current player of g can score category c: at once when the player has
\* rolled, and otherwise after a Roll, which is accepted whatever it draws
CanScore(g, c) ==
    LET user == CurrentPlayerOf(g).User
    IN IF g.RollCount > 0
       THEN ScoreTransition(g, user, c, FALSE).kind = "ok"
       ELSE \A rnd \in Draws :
                /\ RollTransition(g, user, rnd).kind = "ok"
                /\ ScoreTransition(RollTransition(g, user, rnd).game, user, c,
                                   FALSE).kind = "ok"

\* the number of categories player i of g has scored
Scored(g, i) == Cardinality(DOMAIN g.Players[i].ScoreSheet)

\* C20: in every stored game with a player and round < 13, with or without
\* the ordered categories, the current player has a category whose Score is
\* accepted at once or after one accepted Roll; every player has scored one
\* category per round played, and one more when the turn has passed the
\* player in the current round, so that the round is 13 exactly when every
\* player has scored 13 categories.
C20_Progress ==
    \A id \in DOMAIN store :
        LET g == store[id]
        IN /\ (Len(g.Players) > 0 /\ g.Round < LastRound) =>
                  \E c \in CategorySet : CanScore(g, c)
           /\ \A i \in 1..Len(g.Players) :
                  Scored(g, i) = g.Round + (IF i - 1 < g.CurrentPlayer THEN 1 ELSE 0)
           /\ (HasOrdered(g) /\ Len(g.Players) > 0 /\ g.Round < LastRound) =>
                  CanScore(g, PermittedCategory(g))

\* in a session with the ordered categories the Score of the last category
\* has been saved: the round is 13 and alice has scored 13 categories
C20_Witness ==
    \E p \in Procs :
        /\ pc[p] = "emit"
        /\ req[p].op = "score"
        /\ HasOrdered(store[req[p].id])
        /\ base[req[p].id].Round = LastRound - 1
        /\ store[req[p].id].Round = LastRound
        /\ Scored(store[req[p].id], 1) = Len(Categories)

====
